---- MODULE Spec2Model ----
(***************************************************************************)
(* Model of backend/main.py of Vocal-Bridge: the medical word categorizer, *)
(* the deduplicator/limiter, the free-text and structured sentence         *)
(* composers and the HTTP handlers that call them.                         *)
(*                                                                         *)
(* A request is drawn in Init; each action is one handler (or one direct   *)
(* call of a function of main.py) run to completion on that request.       *)
(* Strings are real strings: sentences are built with \o exactly as the    *)
(* f-strings of the code build them.                                       *)
(***************************************************************************)
EXTENDS Integers, Sequences, FiniteSets, TLC

(***************************************************************************)
(* Bounds of the model.                                                    *)
(***************************************************************************)
\* Longest request made of arbitrary pieces of Vocab.
MaxLen == 3
\* Longest request of the long family (pieces of LongVocab, see LongInputs).
MaxLongLen == 8

(***************************************************************************)
(* Category tables (main.py 38-45).  Python lists used only with `in`.     *)
(***************************************************************************)
\* SYMPTOM_WORDS without its last two entries, 'bad' and 'worse'.
SYMPTOM_WORDS_without_bad ==
    {"pain", "headache", "fever", "nausea", "dizzy", "tired", "cough", "cold",
     "flu", "throat", "chest", "breathing", "stomach", "back", "knee",
     "shoulder", "hurt", "sick"}

SYMPTOM_WORDS ==
    {"pain", "headache", "fever", "nausea", "dizzy", "tired", "cough", "cold",
     "flu", "throat", "chest", "breathing", "stomach", "back", "knee",
     "shoulder", "hurt", "sick", "bad", "worse"}

\* TREATMENT_WORDS without 'help'.
TREATMENT_WORDS_without_help ==
    {"medication", "treatment", "surgery", "prescription", "recovery",
     "medicine", "better"}

TREATMENT_WORDS ==
    {"medication", "treatment", "surgery", "prescription", "recovery",
     "medicine", "help", "better"}

MEDICAL_PERSONNEL ==
    {"doctor", "nurse", "hospital", "emergency"}

BODY_PARTS ==
    {"heart", "lungs", "throat", "blood", "pressure", "head", "body"}

ACTION_WORDS ==
    {"need", "want", "go", "get", "make", "cannot", "sleep", "wake", "work",
     "move", "walk", "swallow", "spin"}

TIME_WORDS ==
    {"yesterday", "today", "morning", "night", "week", "now", "start",
     "continue"}

SEVERITY_WORDS ==
    {"very", "too", "much", "high", "hard", "urgent"}

LOCATION_WORDS ==
    {"pharmacy", "hospital", "emergency", "room"}

(***************************************************************************)
(* Python primitives used by the code.                                     *)
(***************************************************************************)
Range(s) == {s[i] : i \in 1..Len(s)}

\* s[:n]
Slice(s, n) ==
    SubSeq(s, 1, IF Len(s) < n THEN Len(s) ELSE n)

\* sep.join(s)
RECURSIVE Join(_, _)
Join(s, sep) ==
    IF s = <<>> THEN ""
    ELSE IF Len(s) = 1 THEN s[1]
    ELSE s[1] \o sep \o Join(Tail(s), sep)

\* list(dict.fromkeys(words)) keeping the last occurrence of a key instead
\* of the first.
RECURSIVE dict_fromkeys_last(_)
dict_fromkeys_last(words) ==
    IF words = <<>> THEN <<>>
    ELSE LET rest == dict_fromkeys_last(Tail(words))
         IN  IF Head(words) \in Range(rest) THEN rest ELSE <<Head(words)>> \o rest

\* list(dict.fromkeys(words)): keys in insertion order, a key inserted again
\* keeps its first position.
RECURSIVE dict_fromkeys(_)
dict_fromkeys(words) ==
    IF words = <<>> THEN <<>>
    ELSE LET n    == Len(words)
             seen == dict_fromkeys(SubSeq(words, 1, n - 1))
         IN  IF words[n] \in Range(seen) THEN seen ELSE Append(seen, words[n])

\* The slice bound of `list(dict.fromkeys(words))[:7]`.
MaxUnique == 7

\* unique_words with the slice taken one element short.
unique_words_of_short(words) ==
    Slice(dict_fromkeys(words), MaxUnique - 1)

\* unique_words = list(dict.fromkeys(words))[:7]   (main.py 84 and 142)
unique_words_of(words) ==
    Slice(dict_fromkeys(words), MaxUnique)

\* str.lower() on the pieces the requests are made of.
Lower(piece) ==
    CASE piece = "Pain" -> "pain"
      [] piece = "NEED" -> "need"
      [] OTHER -> piece

IsSpace(piece) == piece = " "

\* str.split() with no argument, on a text given as its pieces (each piece
\* is either one whitespace character or a run of non-whitespace
\* characters): maximal runs of non-whitespace pieces, each concatenated
\* into one word; leading, trailing and repeated whitespace yields no word.
RECURSIVE SplitPieces(_, _, _)
SplitPieces(pieces, cur, acc) ==
    IF pieces = <<>>
    THEN IF cur = "" THEN acc ELSE Append(acc, cur)
    ELSE IF IsSpace(Head(pieces))
         THEN SplitPieces(Tail(pieces), "",
                          IF cur = "" THEN acc ELSE Append(acc, cur))
         ELSE SplitPieces(Tail(pieces), cur \o Head(pieces), acc)

\* text.lower().split()
LowerSplit(pieces) ==
    SplitPieces([i \in 1..Len(pieces) |-> Lower(pieces[i])], "", <<>>)

\* The text a sequence of pieces spells.
TextOf(pieces) == Join(pieces, "")

(***************************************************************************)
(* categorize_words (main.py 47-76).                                       *)
(***************************************************************************)
\* The elif chain with BODY_PARTS tested before SYMPTOM_WORDS and
\* LOCATION_WORDS before MEDICAL_PERSONNEL.
CategoryOf_reordered(word) ==
    IF word \in TREATMENT_WORDS THEN "treatments"
    ELSE IF word \in LOCATION_WORDS THEN "locations"
    ELSE IF word \in BODY_PARTS THEN "body_parts"
    ELSE IF word \in SYMPTOM_WORDS THEN "symptoms"
    ELSE IF word \in MEDICAL_PERSONNEL THEN "personnel"
    ELSE IF word \in ACTION_WORDS THEN "actions"
    ELSE IF word \in TIME_WORDS THEN "time_words"
    ELSE IF word \in SEVERITY_WORDS THEN "severity"
    ELSE "none"

\* The if/elif chain of the loop body: the list the word is appended to.
CategoryOf(word) ==
    IF word \in SYMPTOM_WORDS THEN "symptoms"
    ELSE IF word \in TREATMENT_WORDS THEN "treatments"
    ELSE IF word \in MEDICAL_PERSONNEL THEN "personnel"
    ELSE IF word \in BODY_PARTS THEN "body_parts"
    ELSE IF word \in ACTION_WORDS THEN "actions"
    ELSE IF word \in TIME_WORDS THEN "time_words"
    ELSE IF word \in SEVERITY_WORDS THEN "severity"
    ELSE IF word \in LOCATION_WORDS THEN "locations"
    ELSE "none"

\* The eight lists before the loop.
EmptyBuckets ==
    [symptoms |-> <<>>, treatments |-> <<>>, personnel |-> <<>>,
     body_parts |-> <<>>, actions |-> <<>>, time_words |-> <<>>,
     severity |-> <<>>, locations |-> <<>>]

\* One pass over words, appending each word to the list its branch names.
RECURSIVE categorize_words(_)
categorize_words(words) ==
    IF words = <<>> THEN EmptyBuckets
    ELSE LET n    == Len(words)
             b    == categorize_words(SubSeq(words, 1, n - 1))
             cat  == CategoryOf(words[n])
         IN  IF cat = "none" THEN b
             ELSE [b EXCEPT ![cat] = Append(@, words[n])]

(***************************************************************************)
(* correct_grammar (main.py 106-119).  The sequence-to-sequence model is   *)
(* an opaque deterministic function of its input text; its output on       *)
(* input_text is written <<input_text>>.                                   *)
(***************************************************************************)
model_generate(input_text) == "<<" \o input_text \o ">>"

correct_grammar(text) == model_generate("gec: " \o text)

(***************************************************************************)
(* The composers.  A call yields the returned sentence together with what  *)
(* the call did on the way: the branch that returned (numbered as in the   *)
(* rule tables of the specification), the texts passed to correct_grammar, *)
(* in order, and the locals unique_words and the eight buckets (empty when *)
(* the call returned before computing them).                               *)
(***************************************************************************)
Returned(sentence, rule, gec, uw, c) ==
    [sentence |-> sentence, rule |-> rule, gec |-> gec,
     unique_words |-> uw, cats |-> c]

\* The fallback with the unique words joined without the separating space.
Fallback_unspaced(rule, uw, c) ==
    LET text == Join(uw, "")
    IN  Returned(correct_grammar(text), rule, <<text>>, uw, c)

\* The return through the fallback branch: correct_grammar(' '.join(unique_words))
Fallback(rule, uw, c) ==
    LET text == Join(uw, " ")
    IN  Returned(correct_grammar(text), rule, <<text>>, uw, c)

\* create_medical_sentence (main.py 78-104)
create_medical_sentence(words) ==
    IF words = <<>>
    THEN Returned("No medical signs detected", 0, <<>>, <<>>, EmptyBuckets)
    ELSE
    LET uw == unique_words_of(words)
        c  == categorize_words(uw)
        R(sentence, rule) == Returned(sentence, rule, <<>>, uw, c)
    IN  IF c.symptoms # <<>> /\ c.treatments # <<>>
        THEN R("I have " \o Join(Slice(c.symptoms, 3), ", ") \o " and need "
                 \o Join(Slice(c.treatments, 2), ", "), 1)
        ELSE IF c.symptoms # <<>> /\ c.personnel # <<>>
        THEN R("I have " \o Join(Slice(c.symptoms, 3), ", ")
                 \o " and need to see a " \o c.personnel[1], 2)
        ELSE IF c.symptoms # <<>> /\ c.body_parts # <<>>
        THEN R("I have " \o Join(Slice(c.symptoms, 2), ", ") \o " in my "
                 \o Join(Slice(c.body_parts, 2), ", "), 3)
        ELSE IF c.symptoms # <<>>
        THEN R("I am experiencing " \o Join(Slice(c.symptoms, 4), ", "), 4)
        ELSE IF c.treatments # <<>>
        THEN R("I need " \o Join(Slice(c.treatments, 3), ", "), 5)
        ELSE IF c.personnel # <<>>
        THEN R("I need to see a " \o c.personnel[1], 6)
        ELSE Fallback(7, uw, c)

\* The second correction pass of beautify_sentence gated on the number of
\* unique words instead of len(words).
second_pass_gate_unique(words) ==
    Len(dict_fromkeys(words)) <= 3

\* `if len(words) <= 3` of beautify_sentence (main.py 130): TRUE when the
\* composed sentence is returned as it is.
second_pass_gate(words) ==
    Len(words) <= 3

\* beautify_sentence (main.py 121-134), text given as its pieces.  The
\* locals words and medical_sentence are kept with the result.
beautify_sentence(pieces) ==
    LET words == LowerSplit(pieces)
        m     == create_medical_sentence(words)
        final == IF second_pass_gate(words)
                 THEN m
                 ELSE [m EXCEPT !.sentence = correct_grammar(m.sentence),
                                !.gec = Append(m.gec, m.sentence)]
    IN  [call |-> final, words |-> words, medical_sentence |-> m.sentence]

\* Lines 160-184 with `actions and symptoms` tested before
\* `symptoms and body_parts`, and `treatments` before `symptoms`.
general_rules_reordered(uw, c) ==
    LET R(sentence, rule) == Returned(sentence, rule, <<>>, uw, c)
        a == c.actions
        s == c.symptoms
        t == c.treatments
        p == c.personnel
    IN  IF a # <<>> /\ s # <<>> /\ p # <<>>
        THEN R("I " \o a[1] \o " help for " \o Join(Slice(s, 2), ", ")
                 \o " and " \o a[1] \o " to see a " \o p[1], 4)
        ELSE IF a # <<>> /\ s # <<>> /\ t # <<>>
        THEN R("I " \o a[1] \o " " \o Join(Slice(t, 2), ", ") \o " for "
                 \o Join(Slice(s, 2), ", "), 5)
        ELSE IF s # <<>> /\ t # <<>> /\ p # <<>>
        THEN R("I have " \o Join(Slice(s, 2), ", ") \o " and need "
                 \o Join(Slice(t, 1), ", ") \o " from a " \o p[1], 6)
        ELSE IF s # <<>> /\ t # <<>>
        THEN R("I have " \o Join(Slice(s, 3), ", ") \o " and need "
                 \o Join(Slice(t, 2), ", "), 7)
        ELSE IF s # <<>> /\ p # <<>>
        THEN R("I have " \o Join(Slice(s, 3), ", ") \o " and need to see a "
                 \o p[1], 8)
        ELSE IF a # <<>> /\ s # <<>>
        THEN R("I " \o a[1] \o " help for " \o Join(Slice(s, 3), ", "), 10)
        ELSE IF s # <<>> /\ c.body_parts # <<>>
        THEN R("I have " \o Join(Slice(s, 2), ", ") \o " in my "
                 \o Join(Slice(c.body_parts, 2), ", "), 9)
        ELSE IF a # <<>> /\ t # <<>>
        THEN R("I " \o a[1] \o " " \o Join(Slice(t, 3), ", "), 11)
        ELSE IF t # <<>>
        THEN R("I need " \o Join(Slice(t, 3), ", "), 13)
        ELSE IF s # <<>>
        THEN R("I am experiencing " \o Join(Slice(s, 4), ", "), 12)
        ELSE IF p # <<>>
        THEN R("I need to see a " \o p[1], 14)
        ELSE Fallback(15, uw, c)

\* The if/elif chain of process_structured_words (main.py 160-184).
general_rules(uw, c) ==
    LET R(sentence, rule) == Returned(sentence, rule, <<>>, uw, c)
        a == c.actions
        s == c.symptoms
        t == c.treatments
        p == c.personnel
    IN  IF a # <<>> /\ s # <<>> /\ p # <<>>
        THEN R("I " \o a[1] \o " help for " \o Join(Slice(s, 2), ", ")
                 \o " and " \o a[1] \o " to see a " \o p[1], 4)
        ELSE IF a # <<>> /\ s # <<>> /\ t # <<>>
        THEN R("I " \o a[1] \o " " \o Join(Slice(t, 2), ", ") \o " for "
                 \o Join(Slice(s, 2), ", "), 5)
        ELSE IF s # <<>> /\ t # <<>> /\ p # <<>>
        THEN R("I have " \o Join(Slice(s, 2), ", ") \o " and need "
                 \o Join(Slice(t, 1), ", ") \o " from a " \o p[1], 6)
        ELSE IF s # <<>> /\ t # <<>>
        THEN R("I have " \o Join(Slice(s, 3), ", ") \o " and need "
                 \o Join(Slice(t, 2), ", "), 7)
        ELSE IF s # <<>> /\ p # <<>>
        THEN R("I have " \o Join(Slice(s, 3), ", ") \o " and need to see a "
                 \o p[1], 8)
        ELSE IF s # <<>> /\ c.body_parts # <<>>
        THEN R("I have " \o Join(Slice(s, 2), ", ") \o " in my "
                 \o Join(Slice(c.body_parts, 2), ", "), 9)
        ELSE IF a # <<>> /\ s # <<>>
        THEN R("I " \o a[1] \o " help for " \o Join(Slice(s, 3), ", "), 10)
        ELSE IF a # <<>> /\ t # <<>>
        THEN R("I " \o a[1] \o " " \o Join(Slice(t, 3), ", "), 11)
        ELSE IF s # <<>>
        THEN R("I am experiencing " \o Join(Slice(s, 4), ", "), 12)
        ELSE IF t # <<>>
        THEN R("I need " \o Join(Slice(t, 3), ", "), 13)
        ELSE IF p # <<>>
        THEN R("I need to see a " \o p[1], 14)
        ELSE Fallback(15, uw, c)

\* 'medication' in treatments or 'medicine' in treatments
has_medication(c) ==
    "medication" \in Range(c.treatments) \/ "medicine" \in Range(c.treatments)

\* The special patterns placed after the general chain: they are reached
\* only when no category rule returns.
special_patterns_last(uw, c) ==
    LET g == general_rules(uw, c)
    IN  IF g.rule # 15 THEN g
        ELSE IF Len(uw) = 3 /\ "need" \in Range(c.actions)
                /\ "pain" \in Range(c.symptoms) /\ has_medication(c)
        THEN Returned("I need medication for pain", 2, <<>>, uw, c)
        ELSE g

\* The two special patterns (main.py 147-157) followed by the general chain.
special_patterns(uw, c) ==
    LET R(sentence, rule) == Returned(sentence, rule, <<>>, uw, c)
        need_medication_location ==
            IF "need" \in Range(c.actions) /\ has_medication(c)
               /\ c.locations # <<>>
            THEN R("I need medication from " \o c.locations[1], 3)
            ELSE general_rules(uw, c)
    IN  IF Len(uw) = 3 /\ "need" \in Range(c.actions)
           /\ "pain" \in Range(c.symptoms)
        THEN IF has_medication(c)
             THEN R("I need medication for pain", 2)
             ELSE IF c.locations # <<>>
             THEN R("I need medication from " \o c.locations[1] \o " for pain", 2)
             ELSE need_medication_location
        ELSE need_medication_location

\* process_structured_words (main.py 136-184); context is not read.
process_structured_words(words) ==
    IF words = <<>>
    THEN Returned("No medical signs detected", 1, <<>>, <<>>, EmptyBuckets)
    ELSE LET uw == unique_words_of(words)
         IN  special_patterns(uw, categorize_words(uw))

(***************************************************************************)
(* Requests.                                                               *)
(***************************************************************************)
\* Pieces of the short requests: words of every category the structured
\* rules read, words of two tables at once, words of no table, a capitalised
\* word and the whitespace character.
Vocab ==
    {"need", "pain", "medication", "medicine", "pharmacy", "head", "bad",
     "doctor", "help", "throat", "hospital", "xyz", "abc", "Pain", " "}

ShortInputs == UNION {[1..n -> Vocab] : n \in 0..MaxLen}

\* Pieces of the long requests, in the order in which a request may first
\* use them.
LongVocab ==
    <<"xyz", " ", "pain", "now", "very", "emergency", "throat", "room",
      "NEED", "head">>

\* The requests of exactly n pieces whose k-th new piece is LongVocab[k]:
\* every pattern of repetition, once.
RECURSIVE LongOfLen(_)
LongOfLen(n) ==
    IF n = 0 THEN {<<>>}
    ELSE UNION {
           LET d == Cardinality(Range(w))
               m == IF d < Len(LongVocab) THEN d + 1 ELSE d
           IN  {Append(w, LongVocab[k]) : k \in 1..m}
           : w \in LongOfLen(n - 1)}

LongInputs == UNION {LongOfLen(n) : n \in 0..MaxLongLen}

Inputs == ShortInputs \cup LongInputs

(***************************************************************************)
(* State: the request and what the call that served it left behind.        *)
(***************************************************************************)
VARIABLES
    words,              \* the request: req.words, or the pieces of the text
    route,              \* "pending", then the handler or function that ran
    beautified,         \* the sentence returned
    word_count,         \* response field of /process-words
    resp_unique_words,  \* response field "unique_words" of /process-words
    unique_words,       \* the composer's local unique_words
    cats,               \* the eight lists categorize_words returned
    rule,               \* the branch of the composer that returned
    gec_calls,          \* texts passed to correct_grammar, in call order
    split_words,        \* beautify_sentence's local words
    medical_sentence    \* beautify_sentence's local medical_sentence

vars ==
    <<words, route, beautified, word_count, resp_unique_words, unique_words,
      cats, rule, gec_calls, split_words, medical_sentence>>

Init ==
    /\ words \in Inputs
    /\ route = "pending"
    /\ beautified = ""
    /\ word_count = 0
    /\ resp_unique_words = <<>>
    /\ unique_words = <<>>
    /\ cats = EmptyBuckets
    /\ rule = -1
    /\ gec_calls = <<>>
    /\ split_words = <<>>
    /\ medical_sentence = ""

\* What a composer call leaves in the state.
Record(r) ==
    /\ beautified' = r.sentence
    /\ rule' = r.rule
    /\ gec_calls' = r.gec
    /\ unique_words' = r.unique_words
    /\ cats' = r.cats

\* POST /process-words (main.py 198-208)
ProcessWords ==
    /\ route = "pending"
    /\ route' = "process_words"
    /\ Record(process_structured_words(words))
    /\ word_count' = Len(words)
    /\ resp_unique_words' = dict_fromkeys(words)
    /\ UNCHANGED <<words, split_words, medical_sentence>>

\* POST /beautify (main.py 193-196): correction of the raw text, no composer.
Beautify ==
    /\ route = "pending"
    /\ route' = "beautify"
    /\ beautified' = correct_grammar(TextOf(words))
    /\ gec_calls' = <<TextOf(words)>>
    /\ UNCHANGED <<words, word_count, resp_unique_words, unique_words, cats,
                   rule, split_words, medical_sentence>>

\* A call beautify_sentence(text) (main.py 121-134).
BeautifySentence ==
    /\ route = "pending"
    /\ route' = "beautify_sentence"
    /\ LET r == beautify_sentence(words)
       IN  /\ Record(r.call)
           /\ split_words' = r.words
           /\ medical_sentence' = r.medical_sentence
    /\ UNCHANGED <<words, word_count, resp_unique_words>>

\* A call create_medical_sentence(words) (main.py 78-104).
CreateMedicalSentence ==
    /\ route = "pending"
    /\ route' = "create_medical_sentence"
    /\ Record(create_medical_sentence(words))
    /\ UNCHANGED <<words, word_count, resp_unique_words, split_words,
                   medical_sentence>>

\* A call categorize_words(words) (main.py 47-76).
CategorizeWords ==
    /\ route = "pending"
    /\ route' = "categorize_words"
    /\ cats' = categorize_words(words)
    /\ UNCHANGED <<words, beautified, word_count, resp_unique_words,
                   unique_words, rule, gec_calls, split_words,
                   medical_sentence>>

Next ==
    \/ ProcessWords
    \/ Beautify
    \/ BeautifySentence
    \/ CreateMedicalSentence
    \/ CategorizeWords

Spec == Init /\ [][Next]_vars

(***************************************************************************)
(* The structured rule table of the specification (section 4.4), stated on *)
(* the state a /process-words call leaves: rule i applies when RulePred(i) *)
(* holds of unique_words and the buckets, and then yields RuleSentence(i). *)
(***************************************************************************)
NonEmpty(bucket) == cats[bucket] # <<>>

Holds(word, bucket) == \E i \in 1..Len(cats[bucket]) : cats[bucket][i] = word

MedicationHeld == Holds("medication", "treatments") \/ Holds("medicine", "treatments")

RulePred(i) ==
    CASE i = 1  -> unique_words = <<>>
      [] i = 2  -> /\ Len(unique_words) = 3
                   /\ Holds("need", "actions")
                   /\ Holds("pain", "symptoms")
                   /\ (MedicationHeld \/ NonEmpty("locations"))
      [] i = 3  -> Holds("need", "actions") /\ MedicationHeld /\ NonEmpty("locations")
      [] i = 4  -> NonEmpty("actions") /\ NonEmpty("symptoms") /\ NonEmpty("personnel")
      [] i = 5  -> NonEmpty("actions") /\ NonEmpty("symptoms") /\ NonEmpty("treatments")
      [] i = 6  -> NonEmpty("symptoms") /\ NonEmpty("treatments") /\ NonEmpty("personnel")
      [] i = 7  -> NonEmpty("symptoms") /\ NonEmpty("treatments")
      [] i = 8  -> NonEmpty("symptoms") /\ NonEmpty("personnel")
      [] i = 9  -> NonEmpty("symptoms") /\ NonEmpty("body_parts")
      [] i = 10 -> NonEmpty("actions") /\ NonEmpty("symptoms")
      [] i = 11 -> NonEmpty("actions") /\ NonEmpty("treatments")
      [] i = 12 -> NonEmpty("symptoms")
      [] i = 13 -> NonEmpty("treatments")
      [] i = 14 -> NonEmpty("personnel")
      [] OTHER  -> TRUE

\* "{bucket[0:n]}": the first n entries of the bucket joined with ", ".
First(bucket, n) == Join(Slice(cats[bucket], n), ", ")

RuleSentence(i) ==
    CASE i = 1  -> "No medical signs detected"
      [] i = 2  -> IF MedicationHeld
                   THEN "I need medication for pain"
                   ELSE "I need medication from " \o First("locations", 1) \o " for pain"
      [] i = 3  -> "I need medication from " \o First("locations", 1)
      [] i = 4  -> "I " \o First("actions", 1) \o " help for " \o First("symptoms", 2)
                      \o " and " \o First("actions", 1) \o " to see a "
                      \o First("personnel", 1)
      [] i = 5  -> "I " \o First("actions", 1) \o " " \o First("treatments", 2)
                      \o " for " \o First("symptoms", 2)
      [] i = 6  -> "I have " \o First("symptoms", 2) \o " and need "
                      \o First("treatments", 1) \o " from a " \o First("personnel", 1)
      [] i = 7  -> "I have " \o First("symptoms", 3) \o " and need "
                      \o First("treatments", 2)
      [] i = 8  -> "I have " \o First("symptoms", 3) \o " and need to see a "
                      \o First("personnel", 1)
      [] i = 9  -> "I have " \o First("symptoms", 2) \o " in my "
                      \o First("body_parts", 2)
      [] i = 10 -> "I " \o First("actions", 1) \o " help for " \o First("symptoms", 3)
      [] i = 11 -> "I " \o First("actions", 1) \o " " \o First("treatments", 3)
      [] i = 12 -> "I am experiencing " \o First("symptoms", 4)
      [] i = 13 -> "I need " \o First("treatments", 3)
      [] i = 14 -> "I need to see a " \o First("personnel", 1)
      [] OTHER  -> correct_grammar(Join(unique_words, " "))

\* The lowest-numbered rule whose predicate holds (rule 15 always does).
LowestRule == CHOOSE i \in 1..15 : RulePred(i) /\ \A j \in 1..(i - 1) : ~RulePred(j)

Served(r) == route = r

(***************************************************************************)
(* C1.  process_structured_words returns the sentence of the lowest-       *)
(* numbered rule of the 15-rule table whose predicate holds of the unique  *)
(* tokens and their buckets: the branch that returns is that rule, so no   *)
(* rule's sentence is returned while a lower-numbered rule applies.  The   *)
(* sentence is a function of the state the input determines, hence the     *)
(* same on every call.                                                     *)
(***************************************************************************)
C1_LowestRuleWins ==
    Served("process_words") =>
        /\ rule = LowestRule
        /\ beautified = RuleSentence(LowestRule)

\* A call where rules 9, 10 and 12 all apply and rule 9 returned.
C1_Witness ==
    /\ Served("process_words")
    /\ RulePred(9) /\ RulePred(10) /\ RulePred(12)
    /\ rule = 9

(***************************************************************************)
(* C2.  For every ordering of need, pain and T, T being medication or      *)
(* medicine, process_structured_words returns "I need medication for pain" *)
(* through rule 2.                                                         *)
(***************************************************************************)
IsOrderingOf(w, a, b, c) ==
    Len(w) = 3 /\ {w[1], w[2], w[3]} = {a, b, c}

C2_NeedPainMedication ==
    \A T \in {"medication", "medicine"} :
        (Served("process_words") /\ IsOrderingOf(words, "need", "pain", T)) =>
            /\ beautified = "I need medication for pain"
            /\ rule = 2

C2_Witness ==
    /\ Served("process_words")
    /\ words = <<"medicine", "pain", "need">>
    /\ beautified = "I need medication for pain"

(***************************************************************************)
(* C3 as the specification states it: for ["pain","head","bad"] the        *)
(* Symptom bucket is [pain], "bad" is in no bucket, and the result is      *)
(* "I have pain in my head".                                               *)
(***************************************************************************)
C3_Original ==
    (Served("process_words") /\ words = <<"pain", "head", "bad">>) =>
        /\ cats.symptoms = <<"pain">>
        /\ cats.body_parts = <<"head">>
        /\ \A b \in DOMAIN cats : ~Holds("bad", b)
        /\ rule = 9
        /\ beautified = "I have pain in my head"

(***************************************************************************)
(* C3 amended.  For ["pain","head","bad"] the Symptom bucket is            *)
(* [pain, bad] ("bad" is a symptom word), the BodyPart bucket is [head],   *)
(* rule 9 returns and the result is "I have pain, bad in my head".         *)
(***************************************************************************)
C3_PainHeadBad ==
    (Served("process_words") /\ words = <<"pain", "head", "bad">>) =>
        /\ cats.symptoms = <<"pain", "bad">>
        /\ cats.body_parts = <<"head">>
        /\ rule = 9
        /\ beautified = "I have pain, bad in my head"

C3_Witness ==
    /\ Served("process_words")
    /\ words = <<"pain", "head", "bad">>
    /\ Holds("bad", "symptoms")

(***************************************************************************)
(* C4 as the specification states it: for ["need","doctor","help"] the     *)
(* rule that fires is rule 5 and the result is "I need help".              *)
(***************************************************************************)
C4_Original ==
    (Served("process_words") /\ words = <<"need", "doctor", "help">>) =>
        /\ cats.actions = <<"need">>
        /\ cats.personnel = <<"doctor">>
        /\ cats.treatments = <<"help">>
        /\ RulePred(5) /\ rule = 5
        /\ beautified = "I need help"

(***************************************************************************)
(* C4 amended.  For ["need","doctor","help"] the buckets are Action=[need],*)
(* Personnel=[doctor], Treatment=[help]; the rule that fires is rule 11    *)
(* (Action and Treatment non-empty; rule 5 does not apply, the Symptom     *)
(* bucket being empty) and the result is "I need help".                    *)
(***************************************************************************)
C4_NeedDoctorHelp ==
    (Served("process_words") /\ words = <<"need", "doctor", "help">>) =>
        /\ cats.actions = <<"need">>
        /\ cats.personnel = <<"doctor">>
        /\ cats.treatments = <<"help">>
        /\ ~RulePred(5)
        /\ RulePred(11) /\ rule = 11
        /\ beautified = "I need help"

C4_Witness ==
    /\ Served("process_words")
    /\ words = <<"need", "doctor", "help">>
    /\ beautified = "I need help"

(***************************************************************************)
(* C5.  categorize_words places each token in the bucket of the first      *)
(* category, in the order Symptom, Treatment, Personnel, BodyPart, Action, *)
(* TimeWord, Severity, Location, whose table contains it, and in no other; *)
(* a token of no table is in no bucket; each bucket keeps input order.     *)
(* So throat is never in the BodyPart bucket and hospital and emergency    *)
(* are never in the Location bucket.                                       *)
(***************************************************************************)
Priority ==
    <<[bucket |-> "symptoms",   table |-> SYMPTOM_WORDS],
      [bucket |-> "treatments", table |-> TREATMENT_WORDS],
      [bucket |-> "personnel",  table |-> MEDICAL_PERSONNEL],
      [bucket |-> "body_parts", table |-> BODY_PARTS],
      [bucket |-> "actions",    table |-> ACTION_WORDS],
      [bucket |-> "time_words", table |-> TIME_WORDS],
      [bucket |-> "severity",   table |-> SEVERITY_WORDS],
      [bucket |-> "locations",  table |-> LOCATION_WORDS]>>

\* TRUE when category i is the first one whose table contains the token.
FirstMatch(token, i) ==
    /\ token \in Priority[i].table
    /\ \A j \in 1..(i - 1) : token \notin Priority[j].table

\* The tokens of w, in order, that satisfy Keep.
Pick(w, Keep(_)) == SelectSeq(w, Keep)

C5_CategoryPriority ==
    Served("categorize_words") =>
        /\ \A i \in 1..8 :
              cats[Priority[i].bucket] = Pick(words, LAMBDA t : FirstMatch(t, i))
        /\ \A t \in Range(words) :
              Cardinality({b \in DOMAIN cats : Holds(t, b)}) <= 1
        /\ ~Holds("throat", "body_parts")
        /\ ~Holds("hospital", "locations")
        /\ ~Holds("emergency", "locations")

\* A call on a sequence that repeats throat and holds hospital.
C5_Witness ==
    /\ Served("categorize_words")
    /\ cats.symptoms = <<"throat", "throat">>
    /\ cats.personnel = <<"hospital">>

(***************************************************************************)
(* C6.  The unique-token sequence computed in create_medical_sentence and  *)
(* in process_structured_words has no two equal elements, has length at    *)
(* most 7, and is the first min(7, number of distinct tokens) distinct     *)
(* tokens of the input in order of first occurrence.                       *)
(***************************************************************************)
\* Positions of w that hold a token for the first time.
FirstOcc(w) == {i \in 1..Len(w) : \A j \in 1..(i - 1) : w[j] # w[i]}

\* The k-th such position.
KthFirstOcc(w, k) ==
    CHOOSE p \in FirstOcc(w) : Cardinality({q \in FirstOcc(w) : q <= p}) = k

IsUniqueTokenSequence(u, w) ==
    LET d == Cardinality(FirstOcc(w))
        n == IF d < 7 THEN d ELSE 7
    IN  /\ Len(u) = n
        /\ Len(u) <= 7
        /\ \A i, j \in 1..Len(u) : i # j => u[i] # u[j]
        /\ \A k \in 1..n : u[k] = w[KthFirstOcc(w, k)]

C6_DedupLimit ==
    /\ (Served("process_words") \/ Served("create_medical_sentence")) =>
           IsUniqueTokenSequence(unique_words, words)
    /\ Served("beautify_sentence") =>
           IsUniqueTokenSequence(unique_words, split_words)

\* A call on more than 7 distinct tokens, cut to the first 7.
C6_Witness ==
    /\ Served("create_medical_sentence")
    /\ Cardinality(Range(words)) > 7
    /\ unique_words = SubSeq(words, 1, 7)

(***************************************************************************)
(* C7 as the specification states it: for every input, categorizing the    *)
(* unique-token sequence (cut to 7) gives the same buckets as categorizing *)
(* the input and then removing repeated tokens within each bucket.         *)
(***************************************************************************)
\* s without the repeated occurrences of its elements.
KeepFirst(s) == [k \in 1..Cardinality(FirstOcc(s)) |-> s[KthFirstOcc(s, k)]]

DedupPerBucket(b) == [k \in DOMAIN b |-> KeepFirst(b[k])]

C7_Original ==
    Served("process_words") =>
        cats = DedupPerBucket(categorize_words(words))

(***************************************************************************)
(* C7 amended.  For every input with at most 7 distinct tokens,            *)
(* categorizing the unique-token sequence gives the same buckets as        *)
(* categorizing the input and then removing repeated tokens within each    *)
(* bucket.                                                                 *)
(***************************************************************************)
C7_DedupCommutes ==
    (Served("process_words") /\ Cardinality(Range(words)) <= 7) =>
        cats = DedupPerBucket(categorize_words(words))

\* A call on an input that repeats a token between two others of the same
\* category.
C7_Witness ==
    /\ Served("process_words")
    /\ words = <<"pain", "bad", "pain">>
    /\ cats.symptoms = <<"pain", "bad">>

(***************************************************************************)
(* C8.  beautify_sentence passes the composed sentence through             *)
(* correct_grammar a second time iff the number of lowercased, whitespace- *)
(* split, not deduplicated tokens exceeds 3; otherwise it returns the      *)
(* composed sentence unchanged.  correct_grammar is called 0, 1 or 2       *)
(* times: 2 exactly when no free-text rule 1-6 fires and the count exceeds *)
(* 3, 0 exactly when the count is at most 3 and the input is empty or a    *)
(* rule 1-6 fires.                                                         *)
(***************************************************************************)
\* Number of words of the text: the maximal runs of non-whitespace pieces.
TokenCount ==
    Cardinality({i \in 1..Len(words) :
                    /\ words[i] # " "
                    /\ (i = 1 \/ words[i - 1] = " ")})

\* One of the free-text rules 1-6 applies (each needs a symptom, a
\* treatment or a personnel word; rules 4-6 need nothing more).
FreeTextRuleFires ==
    TokenCount > 0
    /\ (NonEmpty("symptoms") \/ NonEmpty("treatments") \/ NonEmpty("personnel"))

C8_SecondPassGate ==
    Served("beautify_sentence") =>
        /\ TokenCount = Len(split_words)
        /\ (rule \in 1..6) = FreeTextRuleFires
        /\ TokenCount <= 3 => beautified = medical_sentence
        /\ TokenCount > 3 =>
              /\ beautified = correct_grammar(medical_sentence)
              /\ gec_calls[Len(gec_calls)] = medical_sentence
        /\ Len(gec_calls) \in 0..2
        /\ (Len(gec_calls) = 2) = (~FreeTextRuleFires /\ TokenCount > 3)
        /\ (Len(gec_calls) = 0) =
              (TokenCount <= 3 /\ (TokenCount = 0 \/ FreeTextRuleFires))

\* A call on four tokens, three of them repeats, none categorised: two calls.
C8_Witness ==
    /\ Served("beautify_sentence")
    /\ TokenCount = 4
    /\ Len(unique_words) = 1
    /\ Len(gec_calls) = 2

(***************************************************************************)
(* C9.  process_structured_words calls correct_grammar exactly once, on    *)
(* the space-joined unique tokens, when none of rules 1-14 fires (for      *)
(* ["xyz","abc"]: on "xyz abc"), and not at all when one of them fires,    *)
(* the empty-input rule included; a rule-based sentence is returned        *)
(* without a correction pass.                                              *)
(***************************************************************************)
NoRuleFires == \A i \in 1..14 : ~RulePred(i)

C9_FallbackOnly ==
    Served("process_words") =>
        /\ NoRuleFires =>
              /\ gec_calls = <<Join(unique_words, " ")>>
              /\ beautified = correct_grammar(gec_calls[1])
        /\ ~NoRuleFires =>
              /\ gec_calls = <<>>
              /\ \E i \in 1..14 : beautified = RuleSentence(i)
        /\ words = <<>> =>
              gec_calls = <<>> /\ beautified = "No medical signs detected"
        /\ words = <<"xyz", "abc">> => gec_calls = <<"xyz abc">>

C9_Witness ==
    /\ Served("process_words")
    /\ words = <<"xyz", "abc">>
    /\ gec_calls = <<"xyz abc">>

(***************************************************************************)
(* C10.  For every /process-words request the unique_words field of the    *)
(* response equals the unique-token sequence process_structured_words used *)
(* (at most 7 elements), and word_count equals the length of words.        *)
(***************************************************************************)
C10_ResponseUniqueWords ==
    Served("process_words") =>
        /\ word_count = Len(words)
        /\ Len(resp_unique_words) <= 7
        /\ resp_unique_words = unique_words

====
